---- MODULE Spec2Model ----
(***************************************************************************)
(* The Il Post news reader: src/PostNews.py (thumbnails fetched inside    *)
(* create_news_widget, on the interaction thread) and                      *)
(* src/PostNewsTrial.py (one LoadImageThread per row).                     *)
(*                                                                         *)
(* The interaction thread is one process: it is either idle in the Qt      *)
(* event loop or inside display_news, whose for-loop is modelled one       *)
(* iteration per step so that worker threads run beside it.  Signals of    *)
(* worker threads are queued on the interaction thread's event queue and   *)
(* handled, in posting order, only when it is idle.                        *)
(***************************************************************************)
EXTENDS Integers, Sequences, FiniteSets

\* ------------------------------------------------------------- bounds
MaxEntries == 2     \* longest feed the server answers with
MaxFetches == 2     \* calls of fetch_news in one behaviour (the first is initUI's)
MaxOpens == 1       \* browser launches recorded

\* ------------------------------------------------------------- values
NoneVal == "None"             \* Python's None
Missing == "<missing>"        \* an attribute the feed entry does not have
NoExc == "no exception"
NoHandler == "no handler"     \* mouseDoubleClickEvent not overridden
Variants == {"sync", "async"} \* PostNews.py, PostNewsTrial.py

\* The entries the feed server can answer with: a complete entry with a
\* thumbnail, one without, one whose <img> has no src attribute (img_tag['src']
\* raises KeyError), one without a description and one without a title.
Entries ==
    { [title |-> "t1", link |-> "l1", description |-> "<img src=u1>"],
      [title |-> "t2", link |-> "l2", description |-> "<p>text</p>"],
      [title |-> "t1", link |-> "l1", description |-> "<img>"],
      [title |-> "t2", link |-> "l2", description |-> Missing],
      [title |-> Missing, link |-> "l2", description |-> "<p>text</p>"] }

RECURSIVE SeqsUpTo(_, _)
SeqsUpTo(S, n) ==
    IF n = 0 THEN {<<>>}
    ELSE LET shorter == SeqsUpTo(S, n - 1)
         IN  shorter \cup {Append(s, x) : s \in {t \in shorter : Len(t) = n - 1}, x \in S}

\* What feedparser.parse returns or raises.
Feeds ==
    {[exc |-> "URLError", entries |-> <<>>]}
        \cup {[exc |-> NoExc, entries |-> es] : es \in SeqsUpTo(Entries, MaxEntries)}

\* What requests.get and QPixmap.loadFromData do for an image URL.
Responses == {"200 image", "200 garbage", "404", "ConnectionError"}
NoRequest == "no request"

\* ------------------------------------------------------------- FetchNewsThread

\* soup.find('img') and img_tag['src'] on an entry's description.
ExtractImage(description) ==
    CASE description = Missing -> [exc |-> "AttributeError: description", url |-> NoneVal]
      [] description = "<img>" -> [exc |-> "KeyError: src", url |-> NoneVal]
      [] description = "<img src=u1>" -> [exc |-> NoExc, url |-> "u1"]
      [] OTHER -> [exc |-> NoExc, url |-> NoneVal]

\* Does the variant wrap the extraction in its own try/except?
InnerTry(v) == v = "async"

\* f"Error fetching news: {str(e)}"
ErrorTitle(exc) ==
    CASE exc = "URLError" -> "Error fetching news: URLError"
      [] exc = "AttributeError: title" -> "Error fetching news: AttributeError: title"
      [] exc = "AttributeError: description" -> "Error fetching news: AttributeError: description"
      [] OTHER -> "Error fetching news: KeyError: src"

ErrorItem(exc) == [title |-> ErrorTitle(exc), link |-> "", image_url |-> NoneVal]

\* The for-loop over feed.entries: the list built, and the exception that left
\* the loop, if any.
RECURSIVE EntriesLoop(_, _, _)
EntriesLoop(v, entries, items) ==
    IF entries = <<>> THEN [exc |-> NoExc, news_items |-> items]
    ELSE LET entry == Head(entries)
             x == ExtractImage(entry.description)
         IN  IF entry.title = Missing
             THEN [exc |-> "AttributeError: title", news_items |-> items]
             ELSE IF x.exc # NoExc /\ ~InnerTry(v)
             THEN [exc |-> x.exc, news_items |-> items]
             ELSE EntriesLoop(v, Tail(entries),
                      Append(items,
                             [title |-> entry.title, link |-> entry.link,
                              image_url |-> IF x.exc # NoExc THEN NoneVal ELSE x.url]))

\* FetchNewsThread.run with the emit of the except branch appended to the
\* list built so far.
FetchResult_partial(v, feed) ==
    IF feed.exc # NoExc THEN <<ErrorItem(feed.exc)>>
    ELSE LET r == EntriesLoop(v, feed.entries, <<>>)
         IN  IF r.exc # NoExc THEN Append(r.news_items, ErrorItem(r.exc))
             ELSE r.news_items

\* The list FetchNewsThread.run emits for what feedparser.parse did.
FetchResult(v, feed) ==
    IF feed.exc # NoExc THEN <<ErrorItem(feed.exc)>>
    ELSE LET r == EntriesLoop(v, feed.entries, <<>>)
         IN  IF r.exc # NoExc THEN <<ErrorItem(r.exc)>> ELSE r.news_items

\* ------------------------------------------------------------- LoadImageThread

\* Python truthiness of an image_url (None and '' are falsy).
Truthy(image_url) == image_url # NoneVal /\ image_url # ""

\* The pixmap LoadImageThread.run emits: "bitmap", or "null" for QPixmap() and
\* for a pixmap whose loadFromData failed.
LoadedPixmap(image_url, response) ==
    IF Truthy(image_url)
    THEN IF response = "ConnectionError" THEN "null"                  \* except
         ELSE IF response \in {"200 image", "200 garbage"}            \* status 200
              THEN (IF response = "200 image" THEN "bitmap" ELSE "null")
              ELSE "null"
    ELSE "null"

\* ------------------------------------------------------------- rows

\* A QLabel: its text, its pixmap ("none", "null" or "bitmap") and the link its
\* mouseDoubleClickEvent opens.  setText clears the pixmap, setPixmap the text.
BlankLabel == [text |-> "", pixmap |-> "none", click |-> NoHandler]

\* PostNewsTrial.py create_news_widget: the placeholder.
PlaceholderLabel == [BlankLabel EXCEPT !.text = "Loading image..."]

\* PostNews.py create_news_widget: the image label after the inline request.
SyncImageLabel(news_item, response) ==
    IF Truthy(news_item.image_url)
    THEN IF response = "ConnectionError" THEN BlankLabel
         ELSE IF response \in {"200 image", "200 garbage"}
              THEN [text |-> "",
                    pixmap |-> IF response = "200 image" THEN "bitmap" ELSE "null",
                    click |-> news_item.link]
              ELSE BlankLabel
    ELSE [BlankLabel EXCEPT !.text = "No image available"]

\* set_image without its isNull test.
set_image_no_null_test(label, image, link) ==
    [text |-> "", pixmap |-> image, click |-> link]

\* NewsApp.set_image on a label.
set_image(label, image, link) ==
    IF image # "null"
    THEN [text |-> "", pixmap |-> image, click |-> link]
    ELSE [label EXCEPT !.text = "No image available", !.pixmap = "none"]

\* create_news_widget whose title lambda opens the wrong field of the item.
create_news_widget_wrong_capture(news_item, id) ==
    [id |-> id, title |-> news_item.title, link |-> news_item.link,
     title_click |-> news_item.title, style |-> ""]

\* The row create_news_widget returns: widget.link, the title, the link the
\* title's double-click lambda captured, and the style sheet.
create_news_widget(news_item, id) ==
    [id |-> id, title |-> news_item.title, link |-> news_item.link,
     title_click |-> news_item.link, style |-> ""]

\* The LoadImageThread create_news_widget starts, connected to the row's label;
\* rows_at_start records the rows news_widgets held when it was started.
NewImageThread(news_item, id, response, widgets) ==
    [image_url |-> news_item.image_url, link |-> news_item.link, label |-> id,
     response |-> response,
     rows_at_start |-> {widgets[i].id : i \in 1..Len(widgets)}]

\* NewsApp.update_highlight.
update_highlight(widgets, index) ==
    [i \in 1..Len(widgets) |->
        [widgets[i] EXCEPT !.style = IF i - 1 = index THEN "lightblue" ELSE "none"]]

\* What the server can do for a request of image_url.
ResponsesFor(image_url) == IF Truthy(image_url) THEN Responses ELSE {NoRequest}

\* ------------------------------------------------------------- state
VARIABLES
    variant,         \* which of the two programs runs
    fetches,         \* calls of fetch_news so far
    fetchThreads,    \* number of started FetchNewsThreads that have not run
    imageThreads,    \* started LoadImageThreads that have not run
    eventQueue,      \* queued signal deliveries of the interaction thread
    ui_pc,           \* "idle" (event loop) or "display_news"
    news_items,      \* argument of the current or last display_news call
    loop_index,      \* display_news: index of the next item of its for-loop
    news_widgets,    \* self.news_widgets: the rows, each naming its image label
    labels,          \* every image_label created, by id
    deleted,         \* ids of rows on which deleteLater was called
    selected_index,  \* self.selected_index
    opened,          \* links handed to webbrowser.open
    uncaught,        \* exception that left a handler of the interaction thread
    run_feed,        \* SpecFetch: what feedparser.parse does in the run under test
    run_emitted      \* SpecFetch: the lists that run has emitted on news_fetched

vars == <<variant, fetches, fetchThreads, imageThreads, eventQueue, ui_pc, news_items,
          loop_index, news_widgets, labels, deleted, selected_index, opened, uncaught,
          run_feed, run_emitted>>

\* NewsApp.__init__ / initUI: empty row list, selection 0, one fetch started.
Init ==
    /\ variant \in Variants
    /\ fetches = 1
    /\ fetchThreads = 1
    /\ imageThreads = {}
    /\ eventQueue = <<>>
    /\ ui_pc = "idle"
    /\ news_items = <<>>
    /\ loop_index = 1
    /\ news_widgets = <<>>
    /\ labels = <<>>
    /\ deleted = {}
    /\ selected_index = 0
    /\ opened = <<>>
    /\ uncaught = NoExc
    /\ run_feed = [exc |-> NoExc, entries |-> <<>>]
    /\ run_emitted = <<>>

\* ------------------------------------------------------------- worker threads

\* NewsApp.fetch_news: start a FetchNewsThread.
fetch_news ==
    /\ ui_pc = "idle"
    /\ fetches < MaxFetches
    /\ fetches' = fetches + 1
    /\ fetchThreads' = fetchThreads + 1
    /\ UNCHANGED <<run_feed, run_emitted, variant, imageThreads, eventQueue, ui_pc, news_items, loop_index,
                   news_widgets, labels, deleted, selected_index, opened, uncaught>>

\* FetchNewsThread.run: one news_fetched emission, queued for display_news.
FetchNewsThread_run ==
    \E feed \in Feeds :
        /\ fetchThreads > 0
        /\ fetchThreads' = fetchThreads - 1
        /\ eventQueue' = Append(eventQueue,
               [kind |-> "news_fetched", news_items |-> FetchResult(variant, feed),
                image |-> "null", link |-> "", label |-> 0])
        /\ UNCHANGED <<run_feed, run_emitted, variant, fetches, imageThreads, ui_pc, news_items, loop_index,
                       news_widgets, labels, deleted, selected_index, opened, uncaught>>

\* LoadImageThread.run: one image_loaded emission, queued for set_image.
LoadImageThread_run ==
    \E t \in imageThreads :
        /\ imageThreads' = imageThreads \ {t}
        /\ eventQueue' = Append(eventQueue,
               [kind |-> "image_loaded", news_items |-> <<>>,
                image |-> LoadedPixmap(t.image_url, t.response),
                link |-> t.link, label |-> t.label])
        /\ UNCHANGED <<run_feed, run_emitted, variant, fetches, fetchThreads, ui_pc, news_items, loop_index,
                       news_widgets, labels, deleted, selected_index, opened, uncaught>>

\* ------------------------------------------------------------- interaction thread

Idle == ui_pc = "idle" /\ uncaught = NoExc

RowIds(widgets) == {widgets[i].id : i \in 1..Len(widgets)}

\* display_news, up to its for-loop: deleteLater on every row, empty list.
display_news_clear ==
    /\ Idle
    /\ eventQueue # <<>>
    /\ Head(eventQueue).kind = "news_fetched"
    /\ eventQueue' = Tail(eventQueue)
    /\ news_items' = Head(eventQueue).news_items
    /\ deleted' = deleted \cup RowIds(news_widgets)
    /\ news_widgets' = <<>>
    /\ loop_index' = 1
    /\ ui_pc' = "display_news"
    /\ UNCHANGED <<run_feed, run_emitted, variant, fetches, fetchThreads, imageThreads, labels,
                   selected_index, opened, uncaught>>

\* One iteration of display_news's for-loop: create_news_widget, then append.
display_news_item ==
    /\ ui_pc = "display_news"
    /\ loop_index <= Len(news_items)
    /\ LET item == news_items[loop_index]
           id == Len(labels) + 1
       IN  /\ \E response \in ResponsesFor(item.image_url) :
                IF variant = "sync"
                THEN /\ labels' = Append(labels, SyncImageLabel(item, response))
                     /\ UNCHANGED imageThreads
                ELSE /\ labels' = Append(labels, PlaceholderLabel)
                     /\ imageThreads' =
                            imageThreads \cup {NewImageThread(item, id, response, news_widgets)}
           /\ news_widgets' = Append(news_widgets, create_news_widget(item, id))
    /\ loop_index' = loop_index + 1
    /\ UNCHANGED <<run_feed, run_emitted, variant, fetches, fetchThreads, eventQueue, ui_pc, news_items,
                   deleted, selected_index, opened, uncaught>>

\* display_news that highlights without resetting selected_index.
display_news_select_no_reset ==
    /\ ui_pc = "display_news"
    /\ loop_index > Len(news_items)
    /\ news_widgets' = update_highlight(news_widgets, selected_index)
    /\ ui_pc' = "idle"
    /\ UNCHANGED <<run_feed, run_emitted, variant, fetches, fetchThreads, imageThreads,
                   eventQueue, news_items, loop_index, labels, deleted, selected_index,
                   opened, uncaught>>

\* display_news after its for-loop: select and highlight row 0, if any.
display_news_select ==
    /\ ui_pc = "display_news"
    /\ loop_index > Len(news_items)
    /\ IF news_widgets # <<>>
       THEN /\ selected_index' = 0
            /\ news_widgets' = update_highlight(news_widgets, 0)
       ELSE UNCHANGED <<selected_index, news_widgets>>
    /\ ui_pc' = "idle"
    /\ UNCHANGED <<run_feed, run_emitted, variant, fetches, fetchThreads, imageThreads, eventQueue, news_items,
                   loop_index, labels, deleted, opened, uncaught>>

\* Routing by correlation key: the label of the first current row with the link.
TargetLabel_by_link(ev, widgets) ==
    LET hits == {i \in 1..Len(widgets) : widgets[i].link = ev.link}
    IN  IF hits = {} THEN ev.label
        ELSE widgets[CHOOSE i \in hits : \A j \in hits : i <= j].id

\* The label the connected lambda hands to set_image: the image_label of the
\* create_news_widget call that started the thread, whatever the rows are now.
TargetLabel(ev, widgets) == ev.label

\* A direct connection: the slot runs whatever the interaction thread is doing.
deliver_image_loaded_direct ==
    /\ eventQueue # <<>>
    /\ Head(eventQueue).kind = "image_loaded"
    /\ LET ev == Head(eventQueue)
       IN  labels' = [labels EXCEPT ![ev.label] = set_image(@, ev.image, ev.link)]
    /\ eventQueue' = Tail(eventQueue)
    /\ UNCHANGED <<run_feed, run_emitted, variant, fetches, fetchThreads, imageThreads,
                   ui_pc, news_items, loop_index, news_widgets, deleted, selected_index,
                   opened, uncaught>>

\* The queued image_loaded signal reaches the lambda: set_image(image_label, ...).
deliver_image_loaded ==
    /\ Idle
    /\ eventQueue # <<>>
    /\ Head(eventQueue).kind = "image_loaded"
    /\ LET ev == Head(eventQueue)
       IN  labels' = [labels EXCEPT ![TargetLabel(ev, news_widgets)] =
                                    set_image(@, ev.image, ev.link)]
    /\ eventQueue' = Tail(eventQueue)
    /\ UNCHANGED <<run_feed, run_emitted, variant, fetches, fetchThreads, imageThreads, ui_pc, news_items,
                   loop_index, news_widgets, deleted, selected_index, opened, uncaught>>

\* NewsApp.scroll_to_selected: news_widgets[selected_index] raises IndexError
\* outside the list.
scroll_to_selected(widgets, index) ==
    IF index < Len(widgets) THEN NoExc ELSE "IndexError"

\* keyPressEvent wrapping around at both ends.
MovedIndex_wrap(key, index, len) ==
    IF key = "Key_Down"
    THEN IF index < len - 1 THEN index + 1 ELSE 0
    ELSE IF key = "Key_Up"
         THEN IF index > 0 THEN index - 1 ELSE (IF len > 0 THEN len - 1 ELSE 0)
         ELSE index

\* The index keyPressEvent leaves in selected_index.
MovedIndex(key, index, len) ==
    IF key = "Key_Down"
    THEN IF index < len - 1 THEN index + 1 ELSE index
    ELSE IF key = "Key_Up"
         THEN IF index > 0 THEN index - 1 ELSE index
         ELSE index

\* NewsApp.keyPressEvent.
keyPressEvent(key) ==
    /\ Idle
    /\ LET moved == MovedIndex(key, selected_index, Len(news_widgets))
       IN  IF moved # selected_index
           THEN /\ selected_index' = moved
                /\ news_widgets' = update_highlight(news_widgets, moved)
                /\ uncaught' = scroll_to_selected(news_widgets, moved)
           ELSE UNCHANGED <<selected_index, news_widgets, uncaught>>
    /\ UNCHANGED <<run_feed, run_emitted, variant, fetches, fetchThreads, imageThreads, eventQueue, ui_pc,
                   news_items, loop_index, labels, deleted, opened>>

\* NewsApp.open_link: the browser launches after the call.
open_link(link, launched) ==
    IF link # "" THEN Append(launched, link) ELSE launched

\* Double-click on the title of row i (1-based here).
titleDoubleClick(i) ==
    /\ Idle
    /\ i \in 1..Len(news_widgets)
    /\ Len(opened) < MaxOpens
    /\ opened' = open_link(news_widgets[i].title_click, opened)
    /\ UNCHANGED <<run_feed, run_emitted, variant, fetches, fetchThreads, imageThreads, eventQueue, ui_pc,
                   news_items, loop_index, news_widgets, labels, deleted,
                   selected_index, uncaught>>

\* Double-click on the image label of row i, once a handler is installed.
imageDoubleClick(i) ==
    /\ Idle
    /\ i \in 1..Len(news_widgets)
    /\ Len(opened) < MaxOpens
    /\ labels[news_widgets[i].id].click # NoHandler
    /\ opened' = open_link(labels[news_widgets[i].id].click, opened)
    /\ UNCHANGED <<run_feed, run_emitted, variant, fetches, fetchThreads, imageThreads, eventQueue, ui_pc,
                   news_items, loop_index, news_widgets, labels, deleted,
                   selected_index, uncaught>>

Keys == {"Key_Down", "Key_Up", "Key_A"}

Next ==
    \/ fetch_news
    \/ FetchNewsThread_run
    \/ LoadImageThread_run
    \/ display_news_clear
    \/ display_news_item
    \/ display_news_select
    \/ deliver_image_loaded
    \/ \E key \in Keys : keyPressEvent(key)
    \/ \E i \in 1..MaxEntries : titleDoubleClick(i)
    \/ \E i \in 1..MaxEntries : imageDoubleClick(i)

Spec == Init /\ [][Next]_vars

\* ------------------------------------------------------------- properties

Rows == 1..Len(news_widgets)
LabelOf(i) == labels[news_widgets[i].id]
IsErrorBatch(items) ==
    /\ Len(items) = 1
    /\ items[1].title \in {ErrorTitle(e) : e \in {"URLError", "AttributeError: title",
                               "AttributeError: description", "KeyError: src"}}
    /\ items[1].link = ""
    /\ items[1].image_url = NoneVal

\* C1: when display_news returns, news_widgets holds one row per item of the
\* list it was given, in the list's order, none of them a row of an earlier
\* batch, a failed fetch shows as exactly one row, and selected_index is 0 if
\* the list was not empty.
C1_ReplaceRows ==
    [][(ui_pc = "display_news" /\ ui_pc' = "idle") =>
          /\ Len(news_widgets') = Len(news_items')
          /\ \A i \in 1..Len(news_items') :
                /\ news_widgets'[i].title = news_items'[i].title
                /\ news_widgets'[i].link = news_items'[i].link
          /\ RowIds(news_widgets') \cap deleted' = {}
          /\ Cardinality(RowIds(news_widgets')) = Len(news_items')
          /\ (IsErrorBatch(news_items') => Len(news_widgets') = 1)
          /\ (Len(news_items') > 0 => selected_index' = 0)]_vars

\* A second batch of two rows is on display, the first batch discarded.
C1_Witness ==
    /\ ui_pc = "idle"
    /\ Len(news_widgets) = 2
    /\ deleted # {}
    /\ selected_index = 0
    /\ news_widgets[1].link = "l1" /\ news_widgets[2].link = "l2"

\* C2: with K > 0 rows, a Down press moves the selection one row down unless it
\* is on the last row, an Up press one row up unless it is on the first, and
\* the selection stays within 0..K-1; nothing else changes the row list.
C2_ClampedNavigation ==
    [][\A key \in Keys :
          (keyPressEvent(key) /\ Len(news_widgets) > 0) =>
              LET K == Len(news_widgets)
              IN  /\ selected_index \in 0..(K - 1)
                  /\ selected_index' \in 0..(K - 1)
                  /\ key = "Key_Down" =>
                        selected_index' = (IF selected_index = K - 1 THEN selected_index
                                           ELSE selected_index + 1)
                  /\ key = "Key_Up" =>
                        selected_index' = (IF selected_index = 0 THEN selected_index
                                           ELSE selected_index - 1)
                  /\ key \notin {"Key_Down", "Key_Up"} => selected_index' = selected_index
                  /\ RowIds(news_widgets') = RowIds(news_widgets)
                  /\ Len(news_widgets') = K]_vars

\* The last of two rows is selected and highlighted.
C2_Witness ==
    /\ ui_pc = "idle"
    /\ Len(news_widgets) = 2
    /\ selected_index = 1
    /\ news_widgets[2].style = "lightblue"
    /\ news_widgets[1].style = "none"

\* C3: delivering the image_loaded result of a thread started for a discarded
\* row changes no label of the rows now displayed.
C3_NoCrossBatchLeak ==
    [][(/\ eventQueue # <<>>
        /\ Head(eventQueue).kind = "image_loaded"
        /\ Head(eventQueue).label \in deleted
        /\ eventQueue' = Tail(eventQueue)) =>
            /\ news_widgets' = news_widgets
            /\ \A i \in Rows : labels'[news_widgets[i].id] = LabelOf(i)]_vars

\* A bitmap for a discarded row is about to be delivered while a displayed row
\* carries the same link.
C3_Witness ==
    /\ ui_pc = "idle"
    /\ eventQueue # <<>>
    /\ Head(eventQueue).kind = "image_loaded"
    /\ Head(eventQueue).label \in deleted
    /\ Head(eventQueue).image = "bitmap"
    /\ \E i \in Rows : /\ news_widgets[i].link = Head(eventQueue).link
                       /\ LabelOf(i).text = "Loading image..."

\* C4: a run of FetchNewsThread emits once; if the parse raised or an entry has
\* no title the list is the one synthetic error item; and the list is never a
\* partly built one: it is the error item or has one item per entry.
C4_FetchEmitsOnce ==
    /\ Len(run_emitted) = 1 - fetchThreads
    /\ \A n \in 1..Len(run_emitted) :
          LET r == run_emitted[n]
              fails == \/ run_feed.exc # NoExc
                       \/ \E i \in 1..Len(run_feed.entries) :
                             run_feed.entries[i].title = Missing
          IN  /\ fails => IsErrorBatch(r)
              /\ IsErrorBatch(r) \/ Len(r) = Len(run_feed.entries)
              /\ \A i \in 1..Len(r) : r[i].title # Missing

\* The second entry has no title: the item built from the first is dropped.
C4_Witness ==
    /\ Len(run_emitted) = 1
    /\ run_feed.exc = NoExc
    /\ Len(run_feed.entries) = 2
    /\ run_feed.entries[1].title # Missing
    /\ run_feed.entries[2].title = Missing
    /\ IsErrorBatch(run_emitted[1])

\* C5: a run of LoadImageThread queues exactly one image_loaded, with the
\* thread's link and for the thread's label, whose pixmap is a bitmap only for
\* a URL answered 200 with decodable bytes and null otherwise; and set_image
\* with a null pixmap leaves the label showing "No image available", no pixmap.
C5_ImageLoaderOutcome ==
    [][/\ \A t \in imageThreads :
             imageThreads' = imageThreads \ {t} =>
                 /\ Len(eventQueue') = Len(eventQueue) + 1
                 /\ SubSeq(eventQueue', 1, Len(eventQueue)) = eventQueue
                 /\ LET ev == eventQueue'[Len(eventQueue')]
                    IN  /\ ev.kind = "image_loaded"
                        /\ ev.link = t.link
                        /\ ev.label = t.label
                        /\ ev.image = IF t.image_url = "u1" /\ t.response = "200 image"
                                      THEN "bitmap" ELSE "null"
       /\ (/\ eventQueue # <<>>
           /\ Head(eventQueue).kind = "image_loaded"
           /\ eventQueue' = Tail(eventQueue)) =>
               LET ev == Head(eventQueue)
               IN  IF ev.image = "null"
                   THEN /\ labels'[ev.label].text = "No image available"
                        /\ labels'[ev.label].pixmap = "none"
                   ELSE /\ labels'[ev.label].pixmap = "bitmap"
                        /\ labels'[ev.label].click = ev.link]_vars

\* One displayed row shows a bitmap, another "No image available" although its
\* item has an image URL.
C5_Witness ==
    /\ variant = "async"
    /\ ui_pc = "idle"
    /\ \E i, j \in Rows :
          /\ LabelOf(i).pixmap = "bitmap"
          /\ LabelOf(j).text = "No image available"
          /\ news_items[j].image_url = "u1"

\* C6: a double-click on the title or on the image of row i opens the link of
\* the item row i was built from, once, and only if that link is not empty; it
\* changes neither the rows nor the selection.
C6_ActivateOpensOwnLink ==
    [][\A i \in 1..MaxEntries :
          (titleDoubleClick(i) \/ imageDoubleClick(i)) =>
              /\ news_items[i].link # ""
              /\ opened' = Append(opened, news_items[i].link)
              /\ news_widgets' = news_widgets
              /\ selected_index' = selected_index]_vars

\* The second row was activated; the first row has another link.
C6_Witness ==
    /\ opened = <<"l2">>
    /\ Len(news_widgets) = 2
    /\ news_widgets[1].link = "l1"
    /\ news_widgets[2].link = "l2"

\* C7: if the parse did not raise and every entry has a title, the emitted list
\* has one item per entry with the entry's title and link, and the entry's
\* thumbnail URL, or None where its extraction raised.
C7_EntryFailureIsLocal ==
    \A n \in 1..Len(run_emitted) :
        LET r == run_emitted[n]
            es == run_feed.entries
        IN  (run_feed.exc = NoExc /\ \A i \in 1..Len(es) : es[i].title # Missing) =>
                /\ Len(r) = Len(es)
                /\ \A i \in 1..Len(es) :
                      /\ r[i].title = es[i].title
                      /\ r[i].link = es[i].link
                      /\ r[i].image_url =
                            (IF es[i].description = "<img src=u1>" THEN "u1" ELSE NoneVal)

\* C8: every displayed row shows a bitmap, the text "No image available", or,
\* while its thread runs, the placeholder.
C8_FailedImageShowsText ==
    \A i \in Rows :
        \/ LabelOf(i).pixmap = "bitmap"
        \/ LabelOf(i).text = "No image available" /\ LabelOf(i).pixmap = "none"
        \/ variant = "async" /\ LabelOf(i).text = "Loading image..."

\* C9 as stated: a thread of the batch on display was started when
\* news_widgets already held every row of that batch.
C9_AllRowsBeforeDispatch ==
    \A t \in imageThreads :
        t.label \notin deleted => Cardinality(t.rows_at_start) = Len(news_items)

\* C9 amended: a thread of the batch on display was started when news_widgets
\* held exactly the rows of that batch before its own; its label exists; and a
\* label changes only between two idle states of the interaction thread, with
\* every row of the list in news_widgets if the label is a displayed row's.
C9_DispatchInsideCreate ==
    /\ [](\A t \in imageThreads :
             /\ t.label \in 1..Len(labels)
             /\ t.label \notin deleted =>
                   \E i \in Rows :
                       /\ news_widgets[i].id = t.label
                       /\ t.rows_at_start = {news_widgets[j].id : j \in 1..(i - 1)}
                       /\ t.rows_at_start \cap deleted = {})
    /\ [][\A id \in 1..Len(labels) :
             labels'[id] # labels[id] =>
                 /\ ui_pc = "idle" /\ ui_pc' = "idle"
                 /\ id \notin deleted => Len(news_widgets) = Len(news_items)]_vars

\* The thread of the first of two rows has emitted its result while display_news
\* is still in its loop.
C9_Witness ==
    /\ ui_pc = "display_news"
    /\ Len(news_widgets) = 1
    /\ Len(news_items) = 2
    /\ \E k \in 1..Len(eventQueue) :
          /\ eventQueue[k].kind = "image_loaded"
          /\ eventQueue[k].label = news_widgets[1].id

\* C10: no handler of the interaction thread indexes news_widgets outside the
\* list: scroll_to_selected never raises.
C10_SelectionValidWhenUsed == uncaught # "IndexError"

\* ------------------------------------------------------------- FetchNewsThread.run alone

\* One FetchNewsThread whose feedparser.parse does any of Feeds.
InitFetch ==
    /\ variant \in Variants
    /\ run_feed \in Feeds
    /\ run_emitted = <<>>
    /\ fetches = 1
    /\ fetchThreads = 1
    /\ imageThreads = {}
    /\ eventQueue = <<>>
    /\ ui_pc = "idle"
    /\ news_items = <<>>
    /\ loop_index = 1
    /\ news_widgets = <<>>
    /\ labels = <<>>
    /\ deleted = {}
    /\ selected_index = 0
    /\ opened = <<>>
    /\ uncaught = NoExc

\* FetchNewsThread.run on run_feed: every emission is recorded.
FetchNewsThread_run_feed ==
    /\ fetchThreads > 0
    /\ fetchThreads' = fetchThreads - 1
    /\ run_emitted' = Append(run_emitted, FetchResult(variant, run_feed))
    /\ UNCHANGED <<run_feed, variant, fetches, imageThreads, eventQueue, ui_pc,
                   news_items, loop_index, news_widgets, labels, deleted,
                   selected_index, opened, uncaught>>

NextFetch == FetchNewsThread_run_feed

SpecFetch == InitFetch /\ [][NextFetch]_vars
====
